---- MODULE Spec2Model ----
(***************************************************************************)
(* Model of pa3.c: the TLB, the two-level page table of every process,     *)
(* the per-frame map counts, copy-on-write fault handling and the          *)
(* process switch / fork of the virtual-memory simulator.                  *)
(*                                                                         *)
(* One action per function of pa3.c.  Every function runs to completion    *)
(* (the simulator is single threaded), so an action is one whole call.     *)
(***************************************************************************)
EXTENDS Integers, Sequences, FiniteSets, TLC

(* ---- sizes (vm.h is not part of the sources; the model scales them) ---- *)
NR_PTES_PER_PAGE == 2      \* radix of both page-table levels
NR_PAGEFRAMES == 3         \* number of page frames, size of mapcounts[]
NR_TLB_ENTRIES == 2        \* number of slots lookup_tlb / free_page scan
MaxProcs == 3              \* processes that may exist (fork is not taken beyond)
MaxOps == 4                \* length of the call sequences explored

RW_READ == 1
RW_WRITE == 2

Frames == 0 .. (NR_PAGEFRAMES - 1)
Idx == 0 .. (NR_PTES_PER_PAGE - 1)
NR_VPNS == NR_PTES_PER_PAGE * NR_PTES_PER_PAGE
VPNs == 0 .. (NR_VPNS - 1)
\* alloc_page checks its directory index, so it is also driven with the
\* first vpn beyond the page table.
AllocVPNs == 0 .. NR_VPNS
Pids == 0 .. (MaxProcs - 1)
TlbSlots == 0 .. (NR_TLB_ENTRIES - 1)

\* unsigned int return value -1 of alloc_page, kept as the signed reading of
\* the same 32 bits
FAIL == 0 - 1

(* ---- page table entries ------------------------------------------------ *)
\* struct pte {valid, writable, pfn, private}; private holds wasWrite
MkPte(v, w, f, p) == [valid |-> v, writable |-> w, pfn |-> f, private |-> p]
ZeroPte == MkPte(FALSE, FALSE, 0, FALSE)

\* What memory that malloc() returned and nobody wrote may hold: the block
\* is all zero (a fresh heap) or filled with left-over non-zero bytes, which
\* read as a valid writable entry and as a pointer that is not NULL.
Fills == {"zero", "dirty"}
DirtyPte == MkPte(TRUE, TRUE, NR_PAGEFRAMES - 1, TRUE)

\* A directory slot (struct pte_directory *) is NULL, a table, or a pointer
\* that was never initialised and is not NULL.
ZeroTable == [j \in Idx |-> ZeroPte]
NULL == [kind |-> "null", ptes |-> ZeroTable]
WILD == [kind |-> "wild", ptes |-> ZeroTable]
Table(ptes) == [kind |-> "table", ptes |-> ptes]
IsTable(s) == s.kind = "table"
EmptyPagetable == [i \in Idx |-> NULL]
\* malloc(sizeof(struct pte) * NR_PTES_PER_PAGE)
MallocTable(fill) == [j \in Idx |-> IF fill = "zero" THEN ZeroPte ELSE DirtyPte]
\* the outer_ptes[] of a struct process that malloc() returned
MallocDirs(fill) == [i \in Idx |-> IF fill = "zero" THEN NULL ELSE WILD]

pd_index(vpn) == vpn \div NR_PTES_PER_PAGE
pte_index(vpn) == vpn % NR_PTES_PER_PAGE

(* ---- mapcounts: unsigned int, written as the signed reading ------------- *)
\* (a negative n stands for 2^32 + n, which is what 0 - 1 wraps to)
UGt1(c) == c > 1 \/ c < 0

VARIABLES
  tlb,        \* tlb[]: slot -> [valid, vpn, pfn]
  index,      \* static int index of insert_tlb
  mapcounts,  \* mapcounts[]: frame -> count
  procs,      \* every struct process: sequence of [pid, pagetable]
  current,    \* current: index into procs
  processes,  \* the ready queue: sequence of indices into procs
  ptbr,       \* ptbr: index of the process whose pagetable it points at
  crashed,    \* the simulator died on an invalid pointer
  ops,        \* number of calls made so far
  last        \* the call that produced this state

vars == <<tlb, index, mapcounts, procs, current, processes, ptbr, crashed, ops, last>>

ZeroTlbEntry == [valid |-> FALSE, vpn |-> 0, pfn |-> 0]

NoCall == [op |-> "init", vpn |-> 0, rw |-> 0, pid |-> 0, ret |-> 0, path |-> "none"]
Call(op, vpn, rw, pid, ret, path) ==
  [op |-> op, vpn |-> vpn, rw |-> rw, pid |-> pid, ret |-> ret, path |-> path]

Init ==
  /\ tlb = [i \in TlbSlots |-> ZeroTlbEntry]
  /\ index = 0
  /\ mapcounts = [f \in Frames |-> 0]
  /\ procs = <<[pid |-> 0, pagetable |-> EmptyPagetable]>>
  /\ current = 1
  /\ processes = <<>>
  /\ ptbr = 1
  /\ crashed = FALSE
  /\ ops = 0
  /\ last = NoCall

(* ---- TLB ---------------------------------------------------------------- *)
Min(S) == CHOOSE x \in S : \A y \in S : x <= y

\* the slots of t that are valid and hold vpn
TlbMatches(t, vpn) == {i \in TlbSlots : t[i].valid /\ t[i].vpn = vpn}

\* lookup_tlb: the first valid slot holding vpn decides
lookup_tlb(t, vpn) ==
  IF TlbMatches(t, vpn) = {}
  THEN [hit |-> FALSE, pfn |-> 0]
  ELSE [hit |-> TRUE, pfn |-> t[Min(TlbMatches(t, vpn))].pfn]

\* insert_tlb's store tlb[index] = t; beyond the array it does not land in tlb
TlbStore(t, ix, vpn, pfn) ==
  IF ix \in TlbSlots
  THEN [t EXCEPT ![ix] = [valid |-> TRUE, vpn |-> vpn, pfn |-> pfn]]
  ELSE t

\* the loop that opens free_page: the first valid slot holding vpn is
\* invalidated, then the loop breaks
TlbInvalidate(t, vpn) ==
  IF TlbMatches(t, vpn) = {}
  THEN t
  ELSE [t EXCEPT ![Min(TlbMatches(t, vpn))].valid = FALSE]

\* a flush loop that stops one slot early
TlbFlush_StopsEarly(t) ==
  [i \in TlbSlots |-> IF i = NR_TLB_ENTRIES - 1 THEN t[i] ELSE [t[i] EXCEPT !.valid = FALSE]]

\* the loop that closes switch_process
TlbFlush(t) == [i \in TlbSlots |-> [t[i] EXCEPT !.valid = FALSE]]

(* ---- frames ------------------------------------------------------------- *)
FreeFrames(mc) == {f \in Frames : mc[f] = 0}

\* a search loop that keeps going after the first free frame
FindFrame_LastFree(mc, upfn) ==
  IF FreeFrames(mc) = {} THEN upfn
  ELSE CHOOSE f \in FreeFrames(mc) : \A g \in FreeFrames(mc) : g <= f

\* the search loop of alloc_page; when no frame is free the local pfn is
\* never assigned and upfn is the value it happens to hold
FindFrame(mc, upfn) == IF FreeFrames(mc) = {} THEN upfn ELSE Min(FreeFrames(mc))

(* ---- alloc_page / free_page / handle_page_fault on the table ptbr names -- *)
\* The result of a call: the new mapcounts, page table and tlb, the return
\* value, whether the call died, and the branch it took.
Res(mc, pt, t, ret, dead, path) ==
  [mc |-> mc, pt |-> pt, tlb |-> t, ret |-> ret, dead |-> dead, path |-> path]

\* alloc_page(vpn, rw).  upfn: the uninitialised pfn; garb: the content of a
\* table malloc() returns.
alloc_page(mc, pt, t, vpn, rw, upfn, garb) ==
  LET pfn == FindFrame(mc, upfn)
      pd == pd_index(vpn)
      isWrite == (rw # RW_READ)
      p == MkPte(TRUE, isWrite, pfn, isWrite)
      mc2 == [mc EXCEPT ![pfn] = @ + 1]
      path == IF FreeFrames(mc) = {} THEN "exhausted" ELSE "ok"
  IN IF pd >= NR_PTES_PER_PAGE
     THEN Res(mc, pt, t, FAIL, FALSE, "range")
     ELSE IF pt[pd] = WILD
          THEN Res(mc2, pt, t, pfn, TRUE, path)
          ELSE LET table == IF pt[pd] = NULL THEN garb ELSE pt[pd].ptes
               IN Res(mc2,
                      [pt EXCEPT ![pd] = Table([table EXCEPT ![pte_index(vpn)] = p])],
                      t, pfn, FALSE, path)

\* a free_page that forgets mapcounts[pfn]--
free_page_KeepsCount(mc, pt, t, vpn) ==
  LET t2 == TlbInvalidate(t, vpn)
      pd == pd_index(vpn)
  IN IF ~IsTable(pt[pd])
     THEN Res(mc, pt, t2, 0, TRUE, "segv")
     ELSE LET e == pt[pd].ptes[pte_index(vpn)]
          IN Res(mc,
                 [pt EXCEPT ![pd].ptes[pte_index(vpn)] =
                     [e EXCEPT !.valid = FALSE, !.writable = FALSE, !.pfn = 0]],
                 t2, 0, FALSE, "ok")

\* free_page(vpn)
free_page(mc, pt, t, vpn) ==
  LET t2 == TlbInvalidate(t, vpn)
      pd == pd_index(vpn)
  IN IF ~IsTable(pt[pd])
     THEN Res(mc, pt, t2, 0, TRUE, "segv")
     ELSE LET e == pt[pd].ptes[pte_index(vpn)]
          IN Res([mc EXCEPT ![e.pfn] = @ - 1],
                 [pt EXCEPT ![pd].ptes[pte_index(vpn)] =
                     [e EXCEPT !.valid = FALSE, !.writable = FALSE, !.pfn = 0]],
                 t2, 0, FALSE, "ok")

\* a dispatcher that does not look at the saved write permission
FaultBranch_IgnoresPrivate(mc, p, rw) ==
  IF rw = RW_WRITE /\ UGt1(mc[p.pfn]) THEN "shared"
  ELSE IF rw = RW_WRITE /\ mc[p.pfn] = 1 THEN "sole"
  ELSE "none"

\* the two branches of handle_page_fault that resolve a fault
FaultBranch(mc, p, rw) ==
  IF rw = RW_WRITE /\ UGt1(mc[p.pfn]) /\ p.private THEN "shared"
  ELSE IF rw = RW_WRITE /\ mc[p.pfn] = 1 /\ p.private THEN "sole"
  ELSE "none"

\* what both resolving branches do
FreeThenAlloc(mc, pt, t, vpn, rw, upfn, garb, path) ==
  LET f == free_page(mc, pt, t, vpn)
      a == alloc_page(f.mc, f.pt, f.tlb, vpn, rw, upfn, garb)
  IN Res(a.mc, a.pt, a.tlb, TRUE, a.dead,
         IF a.path = "exhausted" THEN path \o "-exhausted" ELSE path)

\* handle_page_fault(vpn, rw); ret is the bool it returns
handle_page_fault(mc, pt, t, vpn, rw, upfn, garb) ==
  IF ~IsTable(pt[pd_index(vpn)])
  THEN Res(mc, pt, t, FALSE, TRUE, "segv")
  ELSE LET p == pt[pd_index(vpn)].ptes[pte_index(vpn)]
           b == FaultBranch(mc, p, rw)
       IN IF b = "none"
          THEN Res(mc, pt, t, FALSE, FALSE, "none")
          ELSE FreeThenAlloc(mc, pt, t, vpn, rw, upfn, garb, b)

(* ---- switch_process ----------------------------------------------------- *)
\* list_for_each_entry: positions of the ready queue whose process has pid
QueueMatches(q, ps, pid) == {k \in 1 .. Len(q) : ps[q[k]].pid = pid}

\* a removal that leaves the resumed process linked
QueueRemove_KeepsAll(q, k) == q

\* list_del_init(&pos->list) for the entry at position k
QueueRemove(q, k) == [j \in 1 .. (Len(q) - 1) |-> IF j < k THEN q[j] ELSE q[j + 1]]

\* list_add in place of list_add_tail: the old current goes to the head
ResumeQueue_AddsHead(q, k, cur) == <<cur>> \o QueueRemove(q, k)

\* the resume branch: unlink the found process, append current
ResumeQueue(q, k, cur) == Append(QueueRemove(q, k), cur)

\* the valid entries of the parent's table in directory slot i
ValidIn(ppt, i) == IF IsTable(ppt[i]) THEN {j \in Idx : ppt[i].ptes[j].valid} ELSE {}

\* the fork loop dies when it reads the parent's entries through a pointer
\* that is not a table, or stores a copy through the child's directory
\* pointer that malloc() left non-NULL
ForkDies(ppt, dirg) ==
  \E i \in Idx : \/ ppt[i] = WILD
                 \/ (ValidIn(ppt, i) # {} /\ dirg[i] = WILD)

\* a fork that leaves the parent's entries as they are
ForkParent_KeepsWritable(ppt) == ppt

\* pd->ptes[j].writable = false for every valid entry of the parent
ForkParent(ppt) ==
  [i \in Idx |->
     IF IsTable(ppt[i])
     THEN Table([j \in Idx |-> IF ppt[i].ptes[j].valid
                               THEN [ppt[i].ptes[j] EXCEPT !.writable = FALSE]
                               ELSE ppt[i].ptes[j]])
     ELSE ppt[i]]

\* the child's page table.  dirg: what the directory pointers of the
\* malloc()ed struct process hold; fill[i]: what the table malloc()ed for
\* slot i holds.  Only valid parent entries are copied.
ForkChild(ppt, dirg, fill) ==
  [i \in Idx |->
     IF IsTable(ppt[i]) /\ dirg[i] = NULL
     THEN Table([j \in Idx |-> IF ppt[i].ptes[j].valid
                               THEN [ppt[i].ptes[j] EXCEPT !.writable = FALSE]
                               ELSE MallocTable(fill[i])[j]])
     ELSE dirg[i]]

\* mapcounts[p.pfn]++ once per copied entry
ForkCounts(mc, ppt) ==
  [f \in Frames |->
     mc[f] + Cardinality({ij \in Idx \X Idx :
                            /\ ij[2] \in ValidIn(ppt, ij[1])
                            /\ ppt[ij[1]].ptes[ij[2]].pfn = f})]

(* ---- actions ------------------------------------------------------------ *)
\* the values the unassigned local pfn of alloc_page is explored with
UninitPfn(mc) == IF FreeFrames(mc) = {} THEN Frames ELSE {0}
\* the tables malloc() may hand to alloc_page
FreshTables(pt, vpn) ==
  IF pd_index(vpn) < NR_PTES_PER_PAGE /\ pt[pd_index(vpn)] = NULL
  THEN {MallocTable(fill) : fill \in Fills} ELSE {ZeroTable}

\* a call is made: the simulator is alive and the sequence is not full
Calling == ~crashed /\ ops < MaxOps

\* store the result of a call made on the table ptbr points at
Commit(r, c) ==
  /\ mapcounts' = r.mc
  /\ procs' = [procs EXCEPT ![ptbr].pagetable = r.pt]
  /\ tlb' = r.tlb
  /\ crashed' = r.dead
  /\ ops' = ops + 1
  /\ last' = c
  /\ UNCHANGED <<index, current, processes, ptbr>>

AllocPage(vpn, rw) ==
  /\ Calling
  /\ \E upfn \in UninitPfn(mapcounts), garb \in FreshTables(procs[ptbr].pagetable, vpn) :
       LET r == alloc_page(mapcounts, procs[ptbr].pagetable, tlb, vpn, rw, upfn, garb)
       IN Commit(r, Call("alloc_page", vpn, rw, 0, r.ret, r.path))

FreePage(vpn) ==
  /\ Calling
  /\ LET r == free_page(mapcounts, procs[ptbr].pagetable, tlb, vpn)
     IN Commit(r, Call("free_page", vpn, 0, 0, 0, r.path))

\* (the table is there when handle_page_fault reaches alloc_page, so malloc()
\* is not called)
HandlePageFault(vpn, rw) ==
  /\ Calling
  /\ \E upfn \in Frames :
       LET r == handle_page_fault(mapcounts, procs[ptbr].pagetable, tlb, vpn, rw,
                                  upfn, ZeroTable)
       IN Commit(r, Call("handle_page_fault", vpn, rw, 0, r.ret, r.path))

\* insert_tlb(vpn, pfn).  A store beyond tlb[] lands in memory this file
\* does not declare: it goes unnoticed or kills the simulator.
InsertTlb(vpn, pfn) ==
  /\ Calling
  /\ tlb' = TlbStore(tlb, index, vpn, pfn)
  /\ index' = index + 1
  /\ crashed' \in (IF index \in TlbSlots THEN {FALSE} ELSE {FALSE, TRUE})
  /\ ops' = ops + 1
  /\ last' = Call("insert_tlb", vpn, 0, 0, pfn,
                  IF index \in TlbSlots THEN "ok" ELSE "beyond")
  /\ UNCHANGED <<mapcounts, procs, current, processes, ptbr>>

\* switch_process(pid), a process with pid is queued
SwitchResume(pid) ==
  /\ Calling
  /\ QueueMatches(processes, procs, pid) # {}
  /\ LET k == Min(QueueMatches(processes, procs, pid))
     IN /\ processes' = ResumeQueue(processes, k, current)
        /\ current' = processes[k]
        /\ ptbr' = processes[k]
  /\ tlb' = TlbFlush(tlb)
  /\ ops' = ops + 1
  /\ last' = Call("switch_process", 0, 0, pid, 0, "resume")
  /\ UNCHANGED <<index, mapcounts, procs, crashed>>

\* switch_process(pid), no process with pid is queued: fork
SwitchFork(pid) ==
  /\ Calling
  /\ QueueMatches(processes, procs, pid) = {}
  /\ Len(procs) < MaxProcs
  /\ \E pfill \in Fills, fill \in [Idx -> Fills] :
       LET ppt == procs[current].pagetable
           dirg == MallocDirs(pfill)
       IN IF ForkDies(ppt, dirg)
          THEN /\ crashed' = TRUE
               /\ ops' = ops + 1
               /\ last' = Call("switch_process", 0, 0, pid, 0, "segv")
               /\ UNCHANGED <<tlb, index, mapcounts, procs, current, processes, ptbr>>
          ELSE /\ mapcounts' = ForkCounts(mapcounts, ppt)
               /\ procs' = Append([procs EXCEPT ![current].pagetable = ForkParent(ppt)],
                                  [pid |-> pid, pagetable |-> ForkChild(ppt, dirg, fill)])
               /\ processes' = Append(processes, current)
               /\ current' = Len(procs) + 1
               /\ ptbr' = Len(procs) + 1
               /\ tlb' = TlbFlush(tlb)
               /\ crashed' = FALSE
               /\ ops' = ops + 1
               /\ last' = Call("switch_process", 0, 0, pid, 0, "fork")
               /\ UNCHANGED index

\* every call the simulator can make
Next ==
  \/ \E vpn \in AllocVPNs, rw \in {RW_READ, RW_WRITE} : AllocPage(vpn, rw)
  \/ \E vpn \in VPNs : FreePage(vpn)
  \/ \E vpn \in VPNs, rw \in {RW_READ, RW_WRITE} : HandlePageFault(vpn, rw)
  \/ \E vpn \in VPNs, pfn \in Frames : InsertTlb(vpn, pfn)
  \/ \E pid \in Pids : SwitchResume(pid)
  \/ \E pid \in Pids : SwitchFork(pid)

Spec == Init /\ [][Next]_vars

\* The calls that read or write page tables and mapcounts.  None of them
\* reads tlb or index, so what they do to page tables and mapcounts is the
\* same whatever insert_tlb calls come between them.
NextVM ==
  \/ \E vpn \in AllocVPNs, rw \in {RW_READ, RW_WRITE} : AllocPage(vpn, rw)
  \/ \E vpn \in VPNs : FreePage(vpn)
  \/ \E vpn \in VPNs, rw \in {RW_READ, RW_WRITE} : HandlePageFault(vpn, rw)
  \/ \E pid \in Pids : SwitchResume(pid)
  \/ \E pid \in Pids : SwitchFork(pid)

SpecVM == Init /\ [][NextVM]_vars

\* the first vpn of every directory slot
DirHeads == {i * NR_PTES_PER_PAGE : i \in Idx}

\* The calls that write tlb.  alloc_page and handle_page_fault are driven
\* with writable pages at the first vpn of each directory slot (what they do
\* to tlb depends on neither rw nor the entry index) and switch_process with
\* two pids (the flush does not depend on pid); insert_tlb and free_page are
\* driven with every vpn.
NextTLB ==
  \/ \E vpn \in VPNs, pfn \in Frames : InsertTlb(vpn, pfn)
  \/ \E vpn \in DirHeads : AllocPage(vpn, RW_WRITE)
  \/ \E vpn \in VPNs : FreePage(vpn)
  \/ \E vpn \in DirHeads : HandlePageFault(vpn, RW_WRITE)
  \/ \E pid \in {0, 1} : SwitchResume(pid)
  \/ \E pid \in {0, 1} : SwitchFork(pid)

SpecTLB == Init /\ [][NextTLB]_vars

(***************************************************************************)
(* Properties                                                              *)
(***************************************************************************)
\* the entry a page table holds for vpn
Pte(pt, vpn) == pt[pd_index(vpn)].ptes[pte_index(vpn)]
\* vpn is mapped: its directory slot is a table and the entry is valid
Mapped(pt, vpn) == IsTable(pt[pd_index(vpn)]) /\ Pte(pt, vpn).valid
\* vpn is unmapped: no table, or an entry that is not valid
Unmapped(pt, vpn) ==
  \/ pt[pd_index(vpn)] = NULL
  \/ (IsTable(pt[pd_index(vpn)]) /\ ~Pte(pt, vpn).valid)
\* the valid PTEs, over the page tables of all processes, whose pfn is f
Refs(ps, f) ==
  {kv \in (1 .. Len(ps)) \X VPNs :
     Mapped(ps[kv[1]].pagetable, kv[2]) /\ Pte(ps[kv[1]].pagetable, kv[2]).pfn = f}
\* the valid PTEs of one page table whose pfn is f
RefsIn(pt, f) == {v \in VPNs : Mapped(pt, v) /\ Pte(pt, v).pfn = f}

\* C1: in every state, for every frame F, mapcounts[F] is the number of valid
\* PTEs, over the page tables of all processes, whose pfn is F.
C1_RefcountInvariant ==
  \A f \in Frames : mapcounts[f] = Cardinality(Refs(procs, f))

\* C2: alloc_page called with an in-range vpn while some frame has count 0
\* returns the smallest frame whose count is 0 at the call.
C2_LowestFrame ==
  [][(/\ last'.op = "alloc_page"
      /\ last'.vpn \in VPNs
      /\ ~crashed'
      /\ FreeFrames(mapcounts) # {})
     => (/\ last'.ret \in FreeFrames(mapcounts)
         /\ \A f \in FreeFrames(mapcounts) : last'.ret <= f
         /\ mapcounts[last'.ret] = 0
         /\ Mapped(procs'[ptbr].pagetable, last'.vpn)
         /\ Pte(procs'[ptbr].pagetable, last'.vpn).pfn = last'.ret)]_vars

\* alloc_page skipped the busy frame 0 and took frame 1 although frame 2 was
\* free as well
C2_Witness ==
  /\ last.op = "alloc_page" /\ last.path = "ok" /\ ~crashed
  /\ last.ret = 1
  /\ mapcounts[0] > 0 /\ mapcounts[1] = 1 /\ mapcounts[2] = 0

\* C3: alloc_page called while every frame has a count above 0 returns -1 and
\* leaves every count, every page-table entry and every directory slot as
\* they were.
C3_Exhaustion ==
  [][(/\ last'.op = "alloc_page"
      /\ FreeFrames(mapcounts) = {})
     => (/\ last'.ret = FAIL
         /\ mapcounts' = mapcounts
         /\ procs' = procs)]_vars

\* C4: a write fault on a valid, once-writable entry whose frame F has a
\* count above 1, with a free frame at hand, returns true; the faulting
\* process then maps the vpn valid and writable to another frame whose count
\* is 1, F's count is one lower, and no other entry of any process changed.
C4_CowDuplicate ==
  [][\A v \in VPNs :
       LET pt == procs[ptbr].pagetable
           F == Pte(pt, v).pfn
           q == Pte(procs'[ptbr].pagetable, v)
       IN (/\ last'.op = "handle_page_fault"
           /\ last'.vpn = v
           /\ last'.rw = RW_WRITE
           /\ Mapped(pt, v)
           /\ Pte(pt, v).private
           /\ UGt1(mapcounts[F])
           /\ FreeFrames(mapcounts) # {})
          => (/\ last'.ret = TRUE
              /\ ~crashed'
              /\ Mapped(procs'[ptbr].pagetable, v)
              /\ q.writable
              /\ q.pfn # F
              /\ mapcounts'[q.pfn] = 1
              /\ mapcounts'[F] = mapcounts[F] - 1
              /\ Len(procs') = Len(procs)
              /\ \A k \in 1 .. Len(procs) : k # ptbr => procs'[k] = procs[k]
              /\ \A u \in VPNs \ {v} :
                   Pte(procs'[ptbr].pagetable, u) = Pte(pt, u))]_vars

\* after a fork the child wrote to a shared page: it now holds a private
\* writable frame while a queued process still maps the old frame at that vpn
C4_Witness ==
  /\ last.op = "handle_page_fault" /\ last.path = "shared" /\ ~crashed
  /\ last.ret = TRUE
  /\ Len(procs) > 1
  /\ \E k \in 1 .. Len(procs) :
       /\ k # ptbr
       /\ Mapped(procs[k].pagetable, last.vpn)
       /\ ~Pte(procs[k].pagetable, last.vpn).writable
       /\ Pte(procs[k].pagetable, last.vpn).pfn
            # Pte(procs[ptbr].pagetable, last.vpn).pfn
       /\ mapcounts[Pte(procs[k].pagetable, last.vpn).pfn] = 1
       /\ mapcounts[Pte(procs[ptbr].pagetable, last.vpn).pfn] = 1

\* C5: a write fault on a valid, non-writable, once-writable entry whose
\* frame F has count exactly 1 returns true and leaves the entry writable on
\* the same frame F, F's count 1 and every other count as it was.
C5_UpgradeInPlace ==
  [][\A v \in VPNs :
       LET pt == procs[ptbr].pagetable
           F == Pte(pt, v).pfn
           q == Pte(procs'[ptbr].pagetable, v)
       IN (/\ last'.op = "handle_page_fault"
           /\ last'.vpn = v
           /\ last'.rw = RW_WRITE
           /\ Mapped(pt, v)
           /\ ~Pte(pt, v).writable
           /\ Pte(pt, v).private
           /\ mapcounts[F] = 1)
          => (/\ last'.ret = TRUE
              /\ Mapped(procs'[ptbr].pagetable, v)
              /\ q.writable
              /\ q.pfn = F
              /\ mapcounts'[F] = 1
              /\ \A f \in Frames \ {F} : mapcounts'[f] = mapcounts[f])]_vars

\* C6: a fork gives the child valid entries at exactly the parent's valid
\* vpns, each with the parent's pfn and private value and writable false,
\* every other child slot invalid, and raises each frame's count by the
\* number of parent entries that reference it.
C6_ForkCompleteness ==
  [][(last'.op = "switch_process" /\ last'.path = "fork")
     => LET parent == procs[current].pagetable
            child == procs'[current'].pagetable
        IN /\ Len(procs') = Len(procs) + 1
           /\ \A v \in VPNs :
                IF Mapped(parent, v)
                THEN /\ Mapped(child, v)
                     /\ Pte(child, v).pfn = Pte(parent, v).pfn
                     /\ Pte(child, v).private = Pte(parent, v).private
                     /\ ~Pte(child, v).writable
                ELSE Unmapped(child, v)
           /\ \A f \in Frames :
                mapcounts'[f] = mapcounts[f] + Cardinality(RefsIn(parent, f))]_vars

\* C7: right after a switch_process call returns, whether it resumed or
\* forked, no TLB entry is valid and lookup_tlb misses for every vpn; and a
\* TLB without valid entries stays so under every call but insert_tlb.
TlbEmpty(t) ==
  /\ \A i \in TlbSlots : ~t[i].valid
  /\ \A v \in VPNs : ~lookup_tlb(t, v).hit
C7_FlushOnSwitch ==
  /\ []((last.op = "switch_process" /\ last.path \in {"resume", "fork"})
          => TlbEmpty(tlb))
  /\ [][(TlbEmpty(tlb) /\ last'.op # "insert_tlb") => TlbEmpty(tlb')]_vars

\* a switch_process call found translations cached and left none valid
C7_Witness ==
  /\ last.op = "switch_process" /\ last.path \in {"resume", "fork"}
  /\ index = NR_TLB_ENTRIES
  /\ \A i \in TlbSlots : tlb[i].pfn # 0 /\ ~tlb[i].valid

\* C8: insert_tlb(v, p) followed at once by lookup_tlb(v) hits with pfn p.
C8_InsertLookup ==
  last.op = "insert_tlb"
    => (lookup_tlb(tlb, last.vpn).hit /\ lookup_tlb(tlb, last.vpn).pfn = last.ret)

\* C9: after free_page(v) returns, lookup_tlb(v) misses.
C9_FreeInvalidates ==
  (last.op = "free_page" /\ last.path = "ok") => ~lookup_tlb(tlb, last.vpn).hit

\* C10: in every state at most one valid TLB entry holds any given vpn.
C10_TlbUnique ==
  \A v \in VPNs : Cardinality(TlbMatches(tlb, v)) <= 1

\* C11: handle_page_fault(v, rw) for a vpn the current process does not map
\* (no table, or an entry that is not valid) returns false, for reads and
\* writes alike, and leaves every count and every page-table entry as it was.
C11_UnmappedFault ==
  [][\A v \in VPNs :
       (/\ last'.op = "handle_page_fault"
        /\ last'.vpn = v
        /\ Unmapped(procs[ptbr].pagetable, v))
       => (/\ last'.ret = FALSE
           /\ ~crashed'
           /\ mapcounts' = mapcounts
           /\ procs' = procs)]_vars

\* a valid entry of a page that was allocated read-only and is not writable
ReadOnly(pt, v) ==
  Mapped(pt, v) /\ ~Pte(pt, v).private /\ ~Pte(pt, v).writable

\* C12: a write fault on a valid entry whose private (wasWritable) is false
\* returns false and changes no count and no page-table entry; and a page
\* allocated read-only is never writable: alloc_page with RW_READ installs it
\* not writable, no call makes it writable in a process that holds it, and a
\* forked child inherits it not writable.
C12_ReadOnlyProtection ==
  [][/\ (/\ last'.op = "handle_page_fault"
         /\ last'.rw = RW_WRITE
         /\ Mapped(procs[ptbr].pagetable, last'.vpn)
         /\ ~Pte(procs[ptbr].pagetable, last'.vpn).private)
        => (/\ last'.ret = FALSE
            /\ ~crashed'
            /\ mapcounts' = mapcounts
            /\ procs' = procs)
     /\ (/\ last'.op = "alloc_page" /\ last'.path = "ok" /\ ~crashed'
         /\ last'.rw = RW_READ)
        => ReadOnly(procs'[ptbr].pagetable, last'.vpn)
     /\ \A k \in 1 .. Len(procs) :
          \/ procs'[k] = procs[k]
          \/ \A v \in VPNs :
               (/\ ReadOnly(procs[k].pagetable, v)
                /\ Mapped(procs'[k].pagetable, v)
                /\ ~Pte(procs'[k].pagetable, v).private)
               => ~Pte(procs'[k].pagetable, v).writable
     /\ (last'.op = "switch_process" /\ last'.path = "fork")
        => \A v \in VPNs :
             ReadOnly(procs[current].pagetable, v)
             => ReadOnly(procs'[current'].pagetable, v)]_vars

\* a forked child wrote to a page its parent allocated read-only and was
\* refused: the entry is still there, shared and not writable
C12_Witness ==
  /\ last.op = "handle_page_fault" /\ last.rw = RW_WRITE /\ ~crashed
  /\ last.ret = FALSE
  /\ Len(procs) > 1 /\ ptbr > 1
  /\ Mapped(procs[ptbr].pagetable, last.vpn)
  /\ ~Pte(procs[ptbr].pagetable, last.vpn).private
  /\ ~Pte(procs[ptbr].pagetable, last.vpn).writable
  /\ mapcounts[Pte(procs[ptbr].pagetable, last.vpn).pfn] > 1

C14_Partition ==
  (last.op = "switch_process" /\ ~crashed)
  => /\ current \in 1 .. Len(procs)
     /\ ptbr = current
     /\ \A k \in 1 .. Len(procs) :
          Cardinality({j \in 1 .. Len(processes) : processes[j] = k})
            = IF k = current THEN 0 ELSE 1

\* switch_process was called with the pid of the process that was current and
\* forked a second process with that pid
C14_Witness ==
  /\ last.op = "switch_process" /\ last.path = "fork" /\ ~crashed
  /\ Len(procs) = MaxProcs
  /\ Len(processes) = MaxProcs - 1
  /\ procs[processes[Len(processes)]].pid = last.pid
  /\ procs[current].pid = last.pid

\* C15: free_page(v) on a valid entry whose frame F has a count k > 1 leaves
\* F with k - 1, changes no other frame's count and no page-table entry of
\* any other process.
C15_FreeShared ==
  [][\A v \in VPNs :
       LET pt == procs[ptbr].pagetable
           F == Pte(pt, v).pfn
       IN (/\ last'.op = "free_page"
           /\ last'.vpn = v
           /\ Mapped(pt, v)
           /\ mapcounts[F] > 1)
          => (/\ ~crashed'
              /\ mapcounts'[F] = mapcounts[F] - 1
              /\ \A f \in Frames \ {F} : mapcounts'[f] = mapcounts[f]
              /\ Len(procs') = Len(procs)
              /\ \A k \in (1 .. Len(procs)) \ {ptbr} : procs'[k] = procs[k])]_vars

\* a forked process freed a page it shared; the other process still maps the
\* frame, whose count is still positive
C15_Witness ==
  /\ last.op = "free_page" /\ last.path = "ok" /\ ~crashed
  /\ Unmapped(procs[ptbr].pagetable, last.vpn)
  /\ \E k \in (1 .. Len(procs)) \ {ptbr} :
       /\ Mapped(procs[k].pagetable, last.vpn)
       /\ Pte(procs[k].pagetable, last.vpn).private
       /\ ~Pte(procs[k].pagetable, last.vpn).writable
       /\ mapcounts[Pte(procs[k].pagetable, last.vpn).pfn] = 1

\* C16: in no reachable state do two distinct processes both hold a valid,
\* writable entry for the same frame.
C16_NoSharedWritable ==
  ~crashed =>
    \A k1, k2 \in 1 .. Len(procs) : \A v1, v2 \in VPNs :
      LET e1 == Pte(procs[k1].pagetable, v1)
          e2 == Pte(procs[k2].pagetable, v2)
      IN (/\ k1 # k2
          /\ Mapped(procs[k1].pagetable, v1) /\ e1.writable
          /\ Mapped(procs[k2].pagetable, v2) /\ e2.writable)
         => e1.pfn # e2.pfn

\* C17: the slot insert_tlb writes is always in [0, NR_TLB_ENTRIES), and the
\* entry just inserted is in one of the slots lookup_tlb scans.
C17_BoundedCursor ==
  last.op = "insert_tlb"
    => /\ (index - 1) \in TlbSlots
       /\ \E i \in TlbSlots :
            tlb[i] = [valid |-> TRUE, vpn |-> last.vpn, pfn |-> last.ret]

\* C18: after a fork every valid entry of the parent has writable false and
\* its valid, pfn and private as before; the parent's invalid entries and its
\* directory slots are as before; and every page that was allocated writable
\* is, in parent and child, valid, not writable and still marked private.
C18_ForkDowngrade ==
  [][(last'.op = "switch_process" /\ last'.path = "fork")
       => LET old == procs[current].pagetable
              new == procs'[current].pagetable
              child == procs'[current'].pagetable
          IN /\ \A i \in Idx :
                  IF IsTable(old[i])
                  THEN /\ IsTable(new[i])
                       /\ \A j \in Idx :
                            new[i].ptes[j] =
                              IF old[i].ptes[j].valid
                              THEN [old[i].ptes[j] EXCEPT !.writable = FALSE]
                              ELSE old[i].ptes[j]
                  ELSE new[i] = old[i]
             /\ \A v \in VPNs :
                  (Mapped(old, v) /\ Pte(old, v).private)
                  => /\ Mapped(new, v) /\ Mapped(child, v)
                     /\ Pte(new, v).private /\ Pte(child, v).private
                     /\ ~Pte(new, v).writable /\ ~Pte(child, v).writable]_vars

\* a process holding a writable page and an invalid entry forked: the page is
\* now read-only and private in the parent, which is last in the queue
C18_Witness ==
  /\ last.op = "switch_process" /\ last.path = "fork" /\ ~crashed
  /\ LET parent == procs[processes[Len(processes)]].pagetable
     IN /\ \E v \in VPNs :
             /\ Mapped(parent, v)
             /\ Pte(parent, v).private
             /\ ~Pte(parent, v).writable
             /\ mapcounts[Pte(parent, v).pfn] = 2
        /\ \E v \in VPNs : IsTable(parent[pd_index(v)]) /\ Unmapped(parent, v)
        /\ \E i \in Idx : parent[i] = NULL

\* C19: after free_page(v) on a mapped vpn the entry is all clear: valid
\* false, writable false, pfn 0 and private (wasWritable) false.
C19_FreeClearsEntry ==
  [][\A v \in VPNs :
       (/\ last'.op = "free_page"
        /\ last'.vpn = v
        /\ Mapped(procs[ptbr].pagetable, v))
       => (~crashed' /\ Pte(procs'[ptbr].pagetable, v) = ZeroPte)]_vars

\* C20: whenever handle_page_fault(v, RW_WRITE) returns true, the current
\* process's entry at v is valid and writable and its frame has count 1,
\* also when no frame was free for the copy.
C20_SuccessGrantsAccess ==
  (/\ last.op = "handle_page_fault" /\ last.rw = RW_WRITE
   /\ last.ret = TRUE /\ ~crashed)
  => /\ Mapped(procs[ptbr].pagetable, last.vpn)
     /\ Pte(procs[ptbr].pagetable, last.vpn).writable
     /\ mapcounts[Pte(procs[ptbr].pagetable, last.vpn).pfn] = 1

====
